---- MODULE Spec2Model ----
(***************************************************************************)
(* A model of djangofeeds' feed importer (src/djangofeeds/importers.py):   *)
(* the Feed and Post tables, FeedImporter.import_feed, update_feed and     *)
(* import_entry, the per-field handlers, truncation and entries_by_date.   *)
(*                                                                         *)
(* Time is a clock of ticks of twenty minutes.  Strings are TLA+ strings;     *)
(* Python's None is the value None below; a dict is a function whose       *)
(* DOMAIN is the set of keys the dict holds.                                *)
(***************************************************************************)
EXTENDS Integers, Sequences, FiniteSets, TLC

VARIABLES feeds, posts, now, call

vars == <<feeds, posts, now, call>>

\* ------------------------------------------------------------- bounds
MaxTime == 2
MaxPosts == 2
MaxEntries == 2
MaxFieldLength == 5

\* ---------------------------------------------------------- constants
None == -1

HTTP_OK == 200
HTTP_MOVED == 301
HTTP_FOUND == 302
HTTP_TEMPORARY_REDIRECT == 307
HTTP_NOT_FOUND == 404
HTTP_NOT_MODIFIED == 304
HTTP_GONE == 410
HTTP_SERVER_ERROR == 500

\* The list with a status too many.
ACCEPTED_STATUSES_with_gone ==
    {HTTP_FOUND, HTTP_MOVED, HTTP_OK, HTTP_TEMPORARY_REDIRECT, HTTP_GONE}

ACCEPTED_STATUSES == {HTTP_FOUND, HTTP_MOVED, HTTP_OK, HTTP_TEMPORARY_REDIRECT}

DEFAULT_POST_LIMIT == 20
DEFAULT_SUMMARY_MAX_WORDS == 25
MIN_REFRESH_INTERVAL == 1

FEED_TIMEDOUT_ERROR == "timeout"
FEED_NOT_FOUND_ERROR == "not_found"
FEED_GENERIC_ERROR == "error"

\* The max_length of the CharFields of Post and Feed (models.py), scaled to
\* the model's short strings; a TextField has max_length None.
CHARFIELD_MAX_LENGTH == 6

max_length(name) ==
    IF name \in {"guid", "title", "author", "link", "name"}
    THEN CHARFIELD_MAX_LENGTH ELSE None

\* ------------------------------------------------------------ strings
\* The characters of the model's strings, in ASCII order.
ASCII == " ().0123456789ABCDEFGHIJKLMNOPQRSTUVWXYZ_abcdefghijklmnopqrstuvwxyz"

ORD == [c \in {SubSeq(ASCII, i, i) : i \in 1..Len(ASCII)} |->
            CHOOSE i \in 1..Len(ASCII) : SubSeq(ASCII, i, i) = c]

Ord(c) == ORD[c]

IntCmp(x, y) == IF x < y THEN -1 ELSE IF x > y THEN 1 ELSE 0

RECURSIVE StrCmp(_, _)
StrCmp(a, b) ==
    IF a = "" /\ b = "" THEN 0
    ELSE IF a = "" THEN -1
    ELSE IF b = "" THEN 1
    ELSE LET x == Ord(SubSeq(a, 1, 1))
             y == Ord(SubSeq(b, 1, 1))
         IN  IF x # y THEN IntCmp(x, y)
             ELSE StrCmp(SubSeq(a, 2, Len(a)), SubSeq(b, 2, Len(b)))

RECURSIVE LStrip(_)
LStrip(s) ==
    IF s # "" /\ SubSeq(s, 1, 1) = " " THEN LStrip(SubSeq(s, 2, Len(s))) ELSE s

RECURSIVE RStrip(_)
RStrip(s) ==
    IF s # "" /\ SubSeq(s, Len(s), Len(s)) = " "
    THEN RStrip(SubSeq(s, 1, Len(s) - 1)) ELSE s

Strip(s) == RStrip(LStrip(s))

\* The slice one character too long.
Slice_one_more(s, n) ==
    IF n = None \/ n + 1 >= Len(s) THEN s ELSE SubSeq(s, 1, n + 1)

\* s[:n] for n >= 0 or n = None.
Slice(s, n) == IF n = None \/ n >= Len(s) THEN s ELSE SubSeq(s, 1, n)

\* dict.get(key, default)
Get(d, key, default) == IF key \in DOMAIN d THEN d[key] ELSE default

EmptyDict == [k \in {} |-> None]

\* django.utils.text.truncate_html_words on text without markup: a text of
\* at most `length` words is returned as it is, a longer one is cut after
\* its length-th word and " ..." is appended.
IsWordStart(s, i) ==
    /\ SubSeq(s, i, i) # " "
    /\ (i = 1 \/ SubSeq(s, i - 1, i - 1) = " ")

WordCount(s) == Cardinality({i \in 1..Len(s) : IsWordStart(s, i)})

truncate_html_words(s, length) ==
    IF length <= 0 THEN ""
    ELSE IF WordCount(s) <= length THEN s
    ELSE LET ends == {i \in 1..Len(s) :
                        /\ WordCount(SubSeq(s, 1, i)) = length
                        /\ SubSeq(s, i, i) # " "
                        /\ (i = Len(s) \/ SubSeq(s, i + 1, i + 1) = " ")}
             end == CHOOSE i \in ends : \A j \in ends : i <= j
         IN  SubSeq(s, 1, end) \o " ..."

summarize_html(text) == truncate_html_words(text, DEFAULT_SUMMARY_MAX_WORDS)

\* --------------------------------------------------------------- URLs
\* The URL callers pass, with surrounding blanks, and the URLs a response
\* names as its own (href).
RawUrls == {" u1 "}
Urls == {"u1", "u2"}

\* ------------------------------------------------------------ entries
\* What the parser hands over for one entry: a dict holding some of the keys
\* the importer reads.  "content" is a list of blocks, each a dict with a
\* "value"; the *_parsed keys are times.
STRING_KEYS == {"guid", "title", "author", "link", "summary", "description"}
DATE_KEYS == {"date_parsed", "updated_parsed", "published_parsed"}

\* An entry with a guid, a summary and dates.
EntryHello1 ==
    [guid |-> "g1", title |-> "Hello", summary |-> "c1",
     published_parsed |-> 1, updated_parsed |-> 1]

\* The same guid (with blanks around it) and another summary; no title and
\* no dates, a link and an empty list of content blocks.
EntryHello2 ==
    [guid |-> " g1 ", summary |-> "c2", link |-> "l1", content |-> <<>>]

\* Another guid, with the title and the date of the first entry; its text is
\* a content block.
EntryOther ==
    [guid |-> "g2", title |-> "Hello", author |-> " Bob",
     content |-> <<[value |-> "c3"]>>,
     published_parsed |-> 1, updated_parsed |-> 1, date_parsed |-> 2]

\* No guid, with the title and the date of the first entry; its text is a
\* description.
EntryNoGuid ==
    [title |-> "Hello", author |-> "Alice", description |-> "c4",
     published_parsed |-> 1, updated_parsed |-> 1]

\* No guid either, with the title and the dates of the one before; another
\* author, a link of its own and another text.
EntryNoGuid2 ==
    [title |-> "Hello", author |-> "Carol", link |-> "l2", summary |-> "c5",
     published_parsed |-> 1, updated_parsed |-> 1]

EntryPool == {EntryHello1, EntryHello2, EntryOther, EntryNoGuid, EntryNoGuid2}

RECURSIVE SeqsUpTo(_, _)
SeqsUpTo(S, n) ==
    IF n = 0 THEN {<<>>}
    ELSE LET shorter == SeqsUpTo(S, n - 1)
         IN  shorter \cup {Append(q, x) : q \in shorter, x \in S}

Batches == SeqsUpTo(EntryPool, MaxEntries)

\* ----------------------------------------------- ordering of entries
\* Python 2 orders lists lexicographically and dicts by size, then by the
\* smallest key on which they differ, then by that key's value.
RECURSIVE BlocksCmp(_, _)
BlocksCmp(x, y) ==
    IF x = <<>> /\ y = <<>> THEN 0
    ELSE IF x = <<>> THEN -1
    ELSE IF y = <<>> THEN 1
    ELSE LET c == StrCmp(Head(x).value, Head(y).value)
         IN  IF c # 0 THEN c ELSE BlocksCmp(Tail(x), Tail(y))

ValueCmp(key, x, y) ==
    IF key \in DATE_KEYS THEN IntCmp(x, y)
    ELSE IF key = "content" THEN BlocksCmp(x, y)
    ELSE StrCmp(x, y)

Characterize(a, b) ==
    LET differing == {k \in DOMAIN a : k \notin DOMAIN b \/ a[k] # b[k]}
    IN  CHOOSE k \in differing : \A j \in differing : StrCmp(k, j) <= 0

DictCmp(a, b) ==
    IF Cardinality(DOMAIN a) # Cardinality(DOMAIN b)
    THEN IntCmp(Cardinality(DOMAIN a), Cardinality(DOMAIN b))
    ELSE IF a = b THEN 0
    ELSE LET adiff == Characterize(a, b)
             bdiff == Characterize(b, a)
             res == StrCmp(adiff, bdiff)
         IN  IF res # 0 THEN res ELSE ValueCmp(adiff, a[adiff], b[bdiff])

\* cmp of two (date, entry) tuples
DateEntryCmp(x, y) ==
    IF x[1] # y[1] THEN IntCmp(x[1], y[1]) ELSE DictCmp(x[2], y[2])

date_entry_tuple(entry, localtime) ==
    IF "date_parsed" \in DOMAIN entry THEN <<entry["date_parsed"], entry>>
    ELSE IF "updated_parsed" \in DOMAIN entry
    THEN <<entry["updated_parsed"], entry>>
    ELSE IF "published_parsed" \in DOMAIN entry
    THEN <<entry["published_parsed"], entry>>
    ELSE <<localtime, entry>>

\* list.sort(): stable, ascending.
RECURSIVE InsertSorted(_, _)
InsertSorted(x, sorted) ==
    IF sorted = <<>> THEN <<x>>
    ELSE IF DateEntryCmp(x, Head(sorted)) < 0 THEN <<x>> \o sorted
    ELSE <<Head(sorted)>> \o InsertSorted(x, Tail(sorted))

RECURSIVE Sort(_)
Sort(s) ==
    IF s = <<>> THEN <<>>
    ELSE InsertSorted(s[Len(s)], Sort(SubSeq(s, 1, Len(s) - 1)))

Reverse(s) == [i \in 1..Len(s) |-> s[Len(s) + 1 - i]]

\* seq[:limit] for limit >= 0
Take(s, limit) == IF limit >= Len(s) THEN s ELSE SubSeq(s, 1, limit)

entries_by_date(entries, limit, localtime) ==
    LET sorted_entries ==
            Reverse(Sort([i \in 1..Len(entries) |->
                            date_entry_tuple(entries[i], localtime)]))
        kept == Take(sorted_entries, limit)
    IN  [i \in 1..Len(kept) |-> kept[i][2]]


\* entries_by_date(feed.entries, limit), tabulated.
BY_DATE ==
    [entries \in Batches |-> [limit \in {DEFAULT_POST_LIMIT} |->
        [t \in 0..MaxTime |-> entries_by_date(entries, limit, t)]]]

\* ------------------------------------------------------ field handlers
\* The first content block before the summary.
_find_post_summary_block_first(entry) ==
    IF "content" \in DOMAIN entry /\ entry["content"] # <<>>
    THEN summarize_html(entry["content"][1].value)
    ELSE summarize_html(Get(entry, "summary", ""))

_find_post_summary(entry) ==
    LET content == IF "content" \in DOMAIN entry /\ entry["content"] # <<>>
                   THEN entry["content"][1].value
                   ELSE ""
    IN  summarize_html(Get(entry, "summary", content))

\* A *_parsed value the entry holds is converted; None (not a time tuple)
\* makes mktime raise TypeError, and the handler answers the current time.
_parsed_date_to_datetime(field_name, entry, t) ==
    IF field_name \in DOMAIN entry
    THEN IF entry[field_name] = None THEN t ELSE entry[field_name]
    ELSE t

post_fields_parsed(entry, feed_url, t) ==
    [content |-> _find_post_summary(entry),
     date_published |-> _parsed_date_to_datetime("published_parsed", entry, t),
     date_updated |-> _parsed_date_to_datetime("updated_parsed", entry, t),
     link |-> IF Get(entry, "link", "") # "" THEN entry["link"] ELSE feed_url,
     feed |-> feed_url,
     guid |-> Strip(Get(entry, "guid", "")),
     title |-> Strip(Get(entry, "title", "(no title)")),
     author |-> Strip(Get(entry, "author", ""))]

\* The fields whose values are strings (basestring).
STRING_FIELDS == {"content", "link", "guid", "title", "author", "name"}

\* `value > field.max_length` compares a string with a number or None:
\* Python 2 orders every string after every number and after None.
StrGreaterThan(value, number) == TRUE

\* truncate_by_field(field, value): field is a dict that holds max_length if
\* the field has the attribute, and is_string says whether value is a
\* basestring.
truncate_value(field, is_string, value) ==
    IF /\ is_string
       /\ "max_length" \in DOMAIN field
       /\ StrGreaterThan(value, field["max_length"])
    THEN Slice(value, field["max_length"])
    ELSE value

\* truncate_by_field(fields[name], value) for a field of Post or Feed.
truncate_by_field(name, value) ==
    truncate_value([max_length |-> max_length(name)],
                   name \in STRING_FIELDS, value)

truncate_field_data(data) ==
    [name \in DOMAIN data |-> truncate_by_field(name, data[name])]

\* truncate_field_data(Post, post_fields_parsed(entry, feed_obj)), tabulated.
POST_FIELDS ==
    [entry \in EntryPool |-> [feed_url \in Urls |-> [t \in 0..MaxTime |->
        truncate_field_data(post_fields_parsed(entry, feed_url, t))]]]

\* --------------------------------------------------------- Post table
\* posts is the table in insertion order; a post's pk is its index.
Matching(ps, lookup) ==
    {pk \in 1..Len(ps) : \A k \in DOMAIN lookup : ps[pk][k] = lookup[k]}

\* A row created whatever the lookup found.
get_or_create_among_creating(ps, lookup, defaults, found) ==
    [posts |-> Append(ps, defaults @@ lookup), pk |-> Len(ps) + 1,
     created |-> TRUE, raised |-> ""]

\* Post.objects.get_or_create(defaults=defaults, **lookup), `found` being the
\* rows that match the lookup.
get_or_create_among(ps, lookup, defaults, found) ==
    IF Cardinality(found) > 1
    THEN [posts |-> ps, pk |-> None, created |-> FALSE,
          raised |-> "MultipleObjectsReturned"]
    ELSE IF found = {}
    THEN [posts |-> Append(ps, defaults @@ lookup), pk |-> Len(ps) + 1,
          created |-> TRUE, raised |-> ""]
    ELSE [posts |-> ps, pk |-> CHOOSE pk \in found : TRUE,
          created |-> FALSE, raised |-> ""]

\* Post.objects.create(...) where get_or_create is meant.
get_or_create_creating(ps, lookup, defaults) ==
    [posts |-> Append(ps, defaults @@ lookup), pk |-> Len(ps) + 1,
     created |-> TRUE, raised |-> ""]

get_or_create(ps, lookup, defaults) ==
    get_or_create_among(ps, lookup, defaults, Matching(ps, lookup))

\* The loop body reads possible_dupe, a name that is not bound: the first
\* candidate raises NameError.  Without candidates the loop does not run and
\* the method returns None.
_find_duplicate_post(ps, lookup, fields) ==
    IF Matching(ps, lookup) = {}
    THEN [pk |-> None, raised |-> ""]
    ELSE [pk |-> None, raised |-> "NameError"]

\* post.save() of a post loaded from the table and not assigned to since.
save_post(ps, pk, fields) == [ps EXCEPT ![pk] = ps[pk]]

\* The lookup without a guid on the author as well.
lookup_fields_with_author(fields, feed_url) ==
    IF fields.guid # ""
    THEN [guid |-> fields.guid, feed |-> feed_url]
    ELSE [title |-> fields.title, feed |-> feed_url,
          date_published |-> fields.date_published,
          author |-> fields.author]

\* The lookup of import_entry: on guid and feed, or without a guid on title,
\* feed and date_published.
lookup_fields(fields, feed_url) ==
    IF fields.guid # ""
    THEN [guid |-> fields.guid, feed |-> feed_url]
    ELSE [title |-> fields.title, feed |-> feed_url,
          date_published |-> fields.date_published]

\* import_entry from the answer of get_or_create on: got is that answer and
\* dupe the answer of _find_duplicate_post, called when get_or_create finds
\* several posts.
store_entry(ps, fields, got, dupe) ==
    LET raise(e) == [posts |-> ps, raised |-> e, fields |-> fields]
        done(table, pk, created) ==
            [posts |-> IF created THEN table ELSE save_post(table, pk, fields),
             raised |-> "", fields |-> fields]
    IN  IF got.raised = "" THEN done(got.posts, got.pk, got.created)
        ELSE IF fields.guid # "" THEN raise(got.raised)
        ELSE IF dupe.raised # "" THEN raise(dupe.raised)
        ELSE IF dupe.pk # None THEN done(ps, dupe.pk, FALSE)
        ELSE done(Append(ps, fields), Len(ps) + 1, TRUE)

resolve_entry(ps, fields, lookup) ==
    store_entry(ps, fields, get_or_create(ps, lookup, fields),
                _find_duplicate_post(ps, lookup, fields))

import_fields(ps, fields, feed_url) ==
    resolve_entry(ps, fields, lookup_fields(fields, feed_url))

import_entry(ps, entry, feed_url, t) ==
    import_fields(ps, POST_FIELDS[entry][feed_url][t], feed_url)

\* [self.import_entry(entry, feed_obj) for entry in ...]: an exception ends
\* the loop and leaves the posts stored so far.
RECURSIVE import_entries(_, _, _, _)
RECURSIVE import_more(_, _, _, _)
import_entries(ps, entries, feed_url, t) ==
    IF entries = <<>> THEN [posts |-> ps, raised |-> "", imported |-> <<>>]
    ELSE import_more(import_entry(ps, Head(entries), feed_url, t),
                     Tail(entries), feed_url, t)

with_first(fields, rest) ==
    [posts |-> rest.posts, raised |-> rest.raised,
     imported |-> <<fields>> \o rest.imported]

import_more(r, entries, feed_url, t) ==
    IF r.raised # ""
    THEN [posts |-> r.posts, raised |-> r.raised, imported |-> <<>>]
    ELSE with_first(r.fields, import_entries(r.posts, entries, feed_url, t))

\* ------------------------------------------------------------ fetches
Channel == [title |-> " Blog "]

\* The conditional-cache headers a response carries.
CacheHeaders == {EmptyDict, [etag |-> "e1", modified |-> 1], [etag |-> "e2"]}

Response(status, href, entries, headers) ==
    [status |-> status, href |-> href, entries |-> entries,
     channel |-> Channel] @@ headers

\* What the parser returns: a dict with the entries and the channel, and with
\* a status unless the feed was read from a local file.  Entries come with
\* status 200; cache headers and the other statuses come without entries.
ParsedFeeds(url) ==
    {Response(HTTP_OK, url, b, EmptyDict) : b \in Batches}
    \cup {Response(HTTP_OK, url, <<>>, h) : h \in CacheHeaders}
    \cup {Response(st, href, <<>>, EmptyDict) :
            st \in {HTTP_MOVED, HTTP_FOUND}, href \in Urls}
    \cup {Response(st, url, <<>>, EmptyDict) :
            st \in {HTTP_TEMPORARY_REDIRECT, HTTP_NOT_MODIFIED,
                    HTTP_NOT_FOUND, HTTP_GONE, HTTP_SERVER_ERROR}}
    \cup {[href |-> url, entries |-> <<>>, channel |-> Channel]}

\* The outcomes of parse_feed: socket.timeout, another exception, a result.
NoFetch == [kind |-> "none"]

FETCHES ==
    [url \in Urls |->
        {[kind |-> "timeout"], [kind |-> "error"]}
        \cup {[kind |-> "parsed", feed |-> f] : f \in ParsedFeeds(url)}]

Fetches(url) == FETCHES[url]

\* --------------------------------------------------------- Feed table
\* A Feed row as get_or_create stores it: never refreshed, no cache headers.
NewFeed(feed_url, name, last_error) ==
    [feed_url |-> feed_url, name |-> name, last_error |-> last_error,
     date_last_refresh |-> None, http_etag |-> "",
     http_last_modified |-> None]

\* ------------------------------------------------------- update_feed
\* The `feed` argument when no parsed feed is passed, and `not feed`.
NoneFeed == EmptyDict
Falsy(feed) == DOMAIN feed = {}

\* The comparison turned round.
Throttled_reversed(feed_obj, t) ==
    /\ feed_obj.date_last_refresh # None
    /\ t > feed_obj.date_last_refresh + MIN_REFRESH_INTERVAL

Throttled(feed_obj, t) ==
    /\ feed_obj.date_last_refresh # None
    /\ t < feed_obj.date_last_refresh + MIN_REFRESH_INTERVAL

\* Without the test for 404.
RefreshOutcome_no_404(status) ==
    IF status = HTTP_NOT_MODIFIED THEN "not_modified"
    ELSE IF status \notin ACCEPTED_STATUSES THEN "generic"
    ELSE "accepted"

\* Without the test for 304.
RefreshOutcome_no_304(status) ==
    IF status = HTTP_NOT_FOUND THEN "not_found"
    ELSE IF status \notin ACCEPTED_STATUSES THEN "generic"
    ELSE "accepted"

\* The branch update_feed takes on the status of the parsed feed.
RefreshOutcome(status) ==
    IF status = HTTP_NOT_MODIFIED THEN "not_modified"
    ELSE IF status = HTTP_NOT_FOUND THEN "not_found"
    ELSE IF status \notin ACCEPTED_STATUSES THEN "generic"
    ELSE "accepted"

\* feed_obj.save() without the assignment to last_error.
record_error_unset(feed_obj, error) == feed_obj

\* feed_obj.last_error = error; feed_obj.save()
record_error(feed_obj, error) == [feed_obj EXCEPT !.last_error = error]

\* Without the assignment that clears last_error.
refreshed_with_error(feed_obj, feed, t) ==
    [feed_obj EXCEPT
        !.date_last_refresh = t,
        !.http_etag = Get(feed, "etag", ""),
        !.http_last_modified =
            IF "modified" \in DOMAIN feed THEN feed["modified"] ELSE @]

\* The fields update_feed sets after the entries are imported.
refreshed(feed_obj, feed, t) ==
    [feed_obj EXCEPT
        !.date_last_refresh = t,
        !.http_etag = Get(feed, "etag", ""),
        !.http_last_modified =
            IF "modified" \in DOMAIN feed THEN feed["modified"] ELSE @,
        !.last_error = ""]

\* What update_feed leaves: the Feed row, the posts, the exception raised
\* (if any), whether it fetched, and the fields of the entries imported.
Updated(feed_obj, ps, raised, fetched, imported) ==
    [feed_obj |-> feed_obj, posts |-> ps, raised |-> raised,
     fetched |-> fetched, imported |-> imported]

\* The time of the refresh saved although an entry raised.
save_refreshed_partly(feed_obj, feed, fetched, t, done) ==
    IF done.raised # ""
    THEN Updated([feed_obj EXCEPT !.date_last_refresh = t], done.posts,
                 done.raised, fetched, done.imported)
    ELSE Updated(refreshed(feed_obj, feed, t), done.posts, "", fetched,
                 done.imported)

\* update_feed from the import of the entries on: done is what the import of
\* the entries left.  An exception of import_entry leaves update_feed before
\* the Feed row is saved.
save_refreshed(feed_obj, feed, fetched, t, done) ==
    IF done.raised # ""
    THEN Updated(feed_obj, done.posts, done.raised, fetched, done.imported)
    ELSE Updated(refreshed(feed_obj, feed, t), done.posts, "", fetched,
                 done.imported)

\* update_feed from the status of the parsed feed on.
refresh_on(outcome, feed_obj, ps, feed, fetched, t, post_limit) ==
    IF outcome = "not_modified"
    THEN Updated(feed_obj, ps, "", fetched, <<>>)
    ELSE IF outcome = "not_found"
    THEN Updated(record_error(feed_obj, FEED_NOT_FOUND_ERROR), ps, "",
                 fetched, <<>>)
    ELSE IF outcome = "generic"
    THEN Updated(record_error(feed_obj, FEED_GENERIC_ERROR), ps, "",
                 fetched, <<>>)
    ELSE save_refreshed(
            feed_obj, feed, fetched, t,
            import_entries(ps, BY_DATE[feed.entries][post_limit][t],
                           feed_obj.feed_url, t))

refresh_from(feed_obj, ps, feed, fetched, t, post_limit) ==
    refresh_on(RefreshOutcome(Get(feed, "status", HTTP_OK)), feed_obj, ps,
               feed, fetched, t, post_limit)

\* update_feed(feed_obj, feed=feed, force=force): `feed` is a parsed feed or
\* None; `fetch` is what parse_feed answers if it is called.
update_feed(feed_obj, ps, feed, force, fetch, t, post_limit) ==
    IF Throttled(feed_obj, t)
    THEN Updated(feed_obj, ps, "", FALSE, <<>>)
    ELSE IF Falsy(feed) /\ fetch.kind = "timeout"
    THEN Updated(record_error(feed_obj, FEED_TIMEDOUT_ERROR), ps, "", TRUE,
                 <<>>)
    ELSE IF Falsy(feed) /\ fetch.kind = "error"
    THEN Updated(record_error(feed_obj, FEED_GENERIC_ERROR), ps, "", TRUE,
                 <<>>)
    ELSE refresh_from(feed_obj, ps,
                      IF Falsy(feed) THEN fetch.feed ELSE feed,
                      Falsy(feed), t, post_limit)

\* ------------------------------------------------------- import_feed
update_on_import == TRUE

\* Without the test for 404.
FirstImportOutcome_no_404(status) ==
    IF status \notin ACCEPTED_STATUSES THEN "critical" ELSE "accepted"

\* The branch import_feed takes on the status of a feed not seen before; a
\* feed without a status counts as not found.
FirstImportOutcome(status) ==
    IF status = HTTP_NOT_FOUND THEN "not_found"
    ELSE IF status \notin ACCEPTED_STATUSES THEN "critical"
    ELSE "accepted"

\* FeedCriticalError.__init__: a status that is given (and not 0) replaces
\* the class's own.
exception_status(class_status, status) ==
    IF status # None /\ status # 0 THEN status ELSE class_status

\* The second read of the status, under the key "status\n".
redirect_status(feed) == Get(feed, "status\n", HTTP_OK)

Redirects(feed_url, feed) ==
    /\ redirect_status(feed) \in {HTTP_FOUND, HTTP_MOVED}
    /\ feed_url # feed.href

\* What import_feed leaves: the tables, the exception raised (if any) and
\* its status, whether it fetched, the fields of the entries imported.
Imported(fs, ps, raised, excstatus, fetched, imported) ==
    [feeds |-> fs, posts |-> ps, raised |-> raised, excstatus |-> excstatus,
     fetched |-> fetched, imported |-> imported]

\* The end of import_feed: r is what update_feed left of the Feed row.
with_update(fs, feed_url, fetched, r) ==
    Imported((feed_url :> r.feed_obj) @@ fs, r.posts, r.raised, None,
             fetched \/ r.fetched, r.imported)

\* The Feed row import_feed creates for a parsed feed.
created_feed(feed_url, feed) ==
    NewFeed(feed_url,
            truncate_by_field(
                "name", Strip(Get(feed.channel, "title", "(no title)"))),
            "")

\* import_feed(feed_url, force) for a feed that is not in the table, from
\* the answer of parse_feed on; `more` is what parse_feed answers next.
RECURSIVE import_feed(_, _, _, _, _, _, _)
import_parsed(fs, ps, feed_url, force, cats, feed, more, t) ==
    IF FirstImportOutcome(Get(feed, "status", HTTP_NOT_FOUND)) = "not_found"
    THEN Imported(fs, ps, "FeedNotFoundError",
                  exception_status(HTTP_NOT_FOUND, None), TRUE, <<>>)
    ELSE IF FirstImportOutcome(Get(feed, "status", HTTP_NOT_FOUND))
                = "critical"
    THEN Imported(fs, ps, "FeedCriticalError",
                  exception_status(None, Get(feed, "status", HTTP_NOT_FOUND)),
                  TRUE, <<>>)
    ELSE IF Redirects(feed_url, feed)
    THEN import_feed(fs, ps, feed.href, force, cats, more, t)
    ELSE IF update_on_import
    THEN with_update(fs, feed_url, TRUE,
                     update_feed(created_feed(feed_url, feed), ps, feed,
                                 force, NoFetch, t, DEFAULT_POST_LIMIT))
    ELSE Imported((feed_url :> created_feed(feed_url, feed)) @@ fs, ps, "",
                  None, TRUE, <<>>)

\* import_feed(feed_url, force); `cats` is the importer's include_categories
\* and `fetches` what parse_feed answers, call after call.  With a Feed row
\* in the table `feed` stays None, and reading feed.channel for the
\* categories raises AttributeError; so does feed.get after a timeout.
import_feed(fs, ps, raw_url, force, cats, fetches, t) ==
    IF Strip(raw_url) \in DOMAIN fs
    THEN IF cats
         THEN Imported(fs, ps, "AttributeError", None, FALSE, <<>>)
         ELSE IF update_on_import
         THEN with_update(fs, Strip(raw_url), FALSE,
                          update_feed(fs[Strip(raw_url)], ps, NoneFeed, force,
                                      Head(fetches), t, DEFAULT_POST_LIMIT))
         ELSE Imported(fs, ps, "", None, FALSE, <<>>)
    ELSE IF fetches = <<>>
    THEN Imported(fs, ps, "RuntimeError", None, FALSE, <<>>)
    ELSE IF Head(fetches).kind = "timeout"
    THEN Imported(fs, ps, "AttributeError", None, TRUE, <<>>)
    ELSE import_parsed(fs, ps, Strip(raw_url), force, cats,
                       IF Head(fetches).kind = "error"
                       THEN [status |-> HTTP_SERVER_ERROR]
                       ELSE Head(fetches).feed,
                       Tail(fetches), t)

\* ------------------------------------------------------------- state
\* call describes the call of the importer that has just ended, until its
\* caller has taken the result: its arguments, what the fetch answered, what
\* it raised, and the guids it imported with the content the feed gave for
\* each.  Calls do not overlap: the importer is called when call is idle.

\* The content of the last imported entry of each (non-empty) guid.
LastContent(imported) ==
    [g \in {imported[i].guid : i \in 1..Len(imported)} \ {""} |->
        imported[CHOOSE i \in 1..Len(imported) :
                    /\ imported[i].guid = g
                    /\ \A j \in (i + 1)..Len(imported) : imported[j].guid # g
                ].content]

\* The fields of the imported entries that have no guid.
Anonymous(imported) ==
    {imported[i] : i \in {j \in 1..Len(imported) : imported[j].guid = ""}}

IdleCall ==
    [op |-> "none", url |-> "", force |-> FALSE,
     fetch |-> "none", status |-> None, href |-> "", etag |-> "",
     modified |-> None,
     raised |-> "", excstatus |-> None, imported |-> EmptyDict,
     anonymous |-> {}]

\* The headers of a fetch that answered a parsed feed.
Answered(fetch, fetched, key, default) ==
    IF fetched /\ fetch.kind = "parsed" THEN Get(fetch.feed, key, default)
    ELSE default

Called(op, url, force, fetch, fetched, raised, excstatus, imported) ==
    [op |-> op, url |-> url, force |-> force,
     fetch |-> IF fetched THEN fetch.kind ELSE "none",
     status |-> Answered(fetch, fetched, "status", None),
     href |-> Answered(fetch, fetched, "href", ""),
     etag |-> Answered(fetch, fetched, "etag", ""),
     modified |-> Answered(fetch, fetched, "modified", None),
     raised |-> raised, excstatus |-> excstatus,
     imported |-> LastContent(imported),
     anonymous |-> Anonymous(imported)]

Init ==
    /\ feeds = [u \in {} |-> None]
    /\ posts = <<>>
    /\ now = 0
    /\ call = IdleCall

\* importer.update_feed(feed_obj, force=force) on a Feed row of the table.
UpdateFeed ==
    /\ call = IdleCall
    /\ \E url \in DOMAIN feeds, force \in BOOLEAN :
        \E fetch \in IF Throttled(feeds[url], now) THEN {NoFetch}
                     ELSE Fetches(url) :
            \E r \in {update_feed(feeds[url], posts, NoneFeed, force, fetch,
                                  now, DEFAULT_POST_LIMIT)} :
                /\ Len(r.posts) <= MaxPosts
                /\ feeds' = [feeds EXCEPT ![url] = r.feed_obj]
                /\ posts' = r.posts
                /\ call' = Called("update_feed", url, force, fetch,
                                  r.fetched, r.raised, None, r.imported)
                /\ UNCHANGED now

\* Whether import_feed calls parse_feed: for a URL that has no Feed row, and
\* for one that has, in update_feed, unless the call ends before.
ImportFetches(url, cats) ==
    \/ url \notin DOMAIN feeds
    \/ ~cats /\ ~Throttled(feeds[url], now)

\* Whether import_feed calls itself, and so parse_feed once more.
ImportFetchesAgain(url, fetch) ==
    /\ url \notin DOMAIN feeds
    /\ fetch.kind = "parsed"
    /\ FirstImportOutcome(Get(fetch.feed, "status", HTTP_NOT_FOUND))
            = "accepted"
    /\ Redirects(url, fetch.feed)

\* importer.import_feed(feed_url, force=force), the importer built with
\* include_categories=cats (which the model follows for a known feed only).
ImportFeed ==
    /\ call = IdleCall
    /\ \E raw_url \in RawUrls, force \in BOOLEAN :
        \E cats \in IF Strip(raw_url) \in DOMAIN feeds THEN BOOLEAN
                    ELSE {FALSE} :
            \E fetch \in IF ImportFetches(Strip(raw_url), cats)
                         THEN Fetches(Strip(raw_url)) ELSE {NoFetch} :
                \E next \in IF ImportFetchesAgain(Strip(raw_url), fetch)
                            THEN Fetches(fetch.feed.href) ELSE {NoFetch} :
                    \E r \in {import_feed(feeds, posts, raw_url, force, cats,
                                          <<fetch, next>>, now)} :
                        /\ Len(r.posts) <= MaxPosts
                        /\ feeds' = r.feeds
                        /\ posts' = r.posts
                        /\ call' = Called("import_feed", Strip(raw_url),
                                          force, fetch, r.fetched, r.raised,
                                          r.excstatus, r.imported)
                        /\ UNCHANGED now

\* The caller takes the result (the returned Feed or the exception).
Return ==
    /\ call # IdleCall
    /\ call' = IdleCall
    /\ UNCHANGED <<feeds, posts, now>>

\* Twenty minutes pass.
Tick ==
    /\ call = IdleCall
    /\ now < MaxTime
    /\ now' = now + 1
    /\ UNCHANGED <<feeds, posts, call>>

Next == UpdateFeed \/ ImportFeed \/ Return \/ Tick

Spec == Init /\ [][Next]_vars

\* ------------------------------------------- entries_by_date on its own
\* The two entries_by_date (importers.py and feedutil.py) applied to batches
\* of entries: call holds the batch, the limit, the date each entry was
\* ordered by, and the list returned or the exception raised.

\* An entry without dates, as EntryHello2 is, with a guid of its own.
EntryUndated == [guid |-> "g3", title |-> "Later"]

OrderBatches == SeqsUpTo(EntryPool \cup {EntryUndated}, MaxEntries)

\* The limits update_feed can pass (post_limit), a small one and the default.
Limits == {1, DEFAULT_POST_LIMIT}

\* The half minutes of a tick: feedutil sets undated entries thirty seconds
\* apart.
HALF_MINUTES == 40

\* feedutil's date_entry_tuple: a parsed date is a time.struct_time, which has
\* no encode(); without dates the entry gets now - counter * 30 seconds.
feedutil_date_entry_tuple(entry, counter, t) ==
    IF DOMAIN entry \cap DATE_KEYS # {}
    THEN [raised |-> "AttributeError", date |-> None]
    ELSE [raised |-> "", date |-> t * HALF_MINUTES - counter]

\* feedutil's entries_by_date: the tuples are bound to sortede_entries, and
\* sorted_entries.sort() reads a name that is not bound.
feedutil_entries_by_date(entries, limit, t) ==
    LET tuples == [i \in 1..Len(entries) |->
                        feedutil_date_entry_tuple(entries[i], i - 1, t)]
    IN  IF \E i \in 1..Len(entries) : tuples[i].raised # ""
        THEN [raised |-> "AttributeError", dates |-> <<>>, result |-> <<>>]
        ELSE [raised |-> "NameError",
              dates |-> [i \in 1..Len(entries) |-> tuples[i].date],
              result |-> <<>>]

Ordered(op, entries, limit, dates, result, raised) ==
    [op |-> op, entries |-> entries, limit |-> limit, dates |-> dates,
     result |-> result, raised |-> raised]

InitOrder ==
    /\ feeds = [u \in {} |-> None]
    /\ posts = <<>>
    /\ now \in 0..MaxTime
    /\ call = IdleCall

\* importers.entries_by_date(entries, limit)
EntriesByDate ==
    /\ call = IdleCall
    /\ \E entries \in OrderBatches, limit \in Limits :
        call' = Ordered("entries_by_date", entries, limit,
                        [i \in 1..Len(entries) |->
                            date_entry_tuple(entries[i], now)[1]],
                        entries_by_date(entries, limit, now), "")
    /\ UNCHANGED <<feeds, posts, now>>

\* feedutil.entries_by_date(entries, limit)
FeedutilEntriesByDate ==
    /\ call = IdleCall
    /\ \E entries \in OrderBatches, limit \in Limits :
        \E r \in {feedutil_entries_by_date(entries, limit, now)} :
            call' = Ordered("feedutil.entries_by_date", entries, limit,
                            r.dates, r.result, r.raised)
    /\ UNCHANGED <<feeds, posts, now>>

\* The caller takes the list (or the exception).
TakeOrdered ==
    /\ call # IdleCall
    /\ call' = IdleCall
    /\ UNCHANGED <<feeds, posts, now>>

NextOrder == EntriesByDate \/ FeedutilEntriesByDate \/ TakeOrdered

SpecOrder == InitOrder /\ [][NextOrder]_vars

\* ----------------------------------------- truncate_by_field on its own
\* truncate_by_field applied to fields and values: call holds the field, the
\* value and what the function returned.

\* The strings: the beginnings of two titles.
Texts ==
    {SubSeq("(no title)", 1, n) : n \in 0..10}
        \cup {SubSeq("Hello Bob", 1, n) : n \in 0..9}

\* The fields: without the attribute max_length, with max_length None, and
\* with a max_length from 0 on.
Fields ==
    {EmptyDict} \cup {[max_length |-> n] : n \in {None} \cup 0..MaxFieldLength}

Truncated(field, is_string, value, result) ==
    [op |-> "truncate_by_field", field |-> field, is_string |-> is_string,
     value |-> value, result |-> result]

InitTruncate ==
    /\ feeds = [u \in {} |-> None]
    /\ posts = <<>>
    /\ now = 0
    /\ call = IdleCall

\* truncate_by_field(field, value) for a string
TruncateString ==
    /\ call = IdleCall
    /\ \E field \in Fields, value \in Texts :
        call' = Truncated(field, TRUE, value,
                          truncate_value(field, TRUE, value))
    /\ UNCHANGED <<feeds, posts, now>>

\* truncate_by_field(field, value) for a number (as "sort": 0 of a Feed)
TruncateNumber ==
    /\ call = IdleCall
    /\ \E field \in Fields, value \in 0..MaxFieldLength :
        call' = Truncated(field, FALSE, value,
                          truncate_value(field, FALSE, value))
    /\ UNCHANGED <<feeds, posts, now>>

\* The caller takes the value.
TakeTruncated ==
    /\ call # IdleCall
    /\ call' = IdleCall
    /\ UNCHANGED <<feeds, posts, now>>

NextTruncate == TruncateString \/ TruncateNumber \/ TakeTruncated

SpecTruncate == InitTruncate /\ [][NextTruncate]_vars

\* ------------------------------------------------ passes side by side
\* Two passes import entries into the posts of one feed with nothing that
\* keeps them apart.  get_or_create is a query for the rows that match and,
\* later, the insertion of a row if there was none: another pass can store
\* between the two.  call holds, for each pass, where it is in import_entry.
Passes == {"a", "b"}

RaceUrl == "u1"

IdlePass ==
    [pc |-> "idle", fields |-> EmptyDict, found |-> {}, overlapped |-> FALSE,
     raised |-> ""]

InitRace ==
    /\ feeds = (RaceUrl :> NewFeed(RaceUrl, "Blog", ""))
    /\ posts = <<>>
    /\ now = 0
    /\ call = [p \in Passes |-> IdlePass]

\* import_entry up to the lookup: the fields are parsed and truncated.  A
\* pass that begins while another is at work overlaps with it.
ParseEntry(p) ==
    /\ call[p].pc = "idle"
    /\ \E entry \in EntryPool :
        call' = [q \in Passes |->
                    IF q = p
                    THEN [pc |-> "parsed",
                          fields |-> POST_FIELDS[entry][RaceUrl][now],
                          found |-> {},
                          overlapped |->
                            \E o \in Passes \ {p} : call[o].pc # "idle",
                          raised |-> ""]
                    ELSE IF call[q].pc # "idle"
                    THEN [call[q] EXCEPT !.overlapped = TRUE]
                    ELSE call[q]]
    /\ UNCHANGED <<feeds, posts, now>>

\* The query of get_or_create.
LookUp(p) ==
    /\ call[p].pc = "parsed"
    /\ call' = [call EXCEPT
                  ![p].pc = "looked",
                  ![p].found =
                    Matching(posts, lookup_fields(call[p].fields, RaceUrl))]
    /\ UNCHANGED <<feeds, posts, now>>

\* The rest of import_entry, on what the query found.
Store(p) ==
    /\ call[p].pc = "looked"
    /\ \E lookup \in {lookup_fields(call[p].fields, RaceUrl)} :
        \E r \in {store_entry(
                    posts, call[p].fields,
                    get_or_create_among(posts, lookup, call[p].fields,
                                        call[p].found),
                    _find_duplicate_post(posts, lookup, call[p].fields))} :
            /\ Len(r.posts) <= MaxPosts
            /\ posts' = r.posts
            /\ call' = [call EXCEPT
                          ![p] = [IdlePass EXCEPT !.raised = r.raised]]
    /\ UNCHANGED <<feeds, now>>

NextRace == \E p \in Passes : ParseEntry(p) \/ LookUp(p) \/ Store(p)

SpecRace == InitRace /\ [][NextRace]_vars

\* ------------------------------------------- the content of a post alone
\* _find_post_summary (importers.py), the handler of the field "content",
\* and find_post_content (feedutil.py) applied to entries: call holds the
\* entry, whether the text can be decoded, and the text returned or the
\* exception raised.

\* A text of 26 words.
LongText == "w w w w w w w w w w w w w w w w w w w w w w w w w w"

ContentBlocks ==
    {<<>>, <<[value |-> "cb"]>>, <<[value |-> "cb"], [value |-> "c2"]>>}

Summaries == {"", "sm", LongText}

Descriptions == {"", "ds"}

\* The entries: with or without content blocks, a summary, a description.
ContentEntries ==
    {c @@ sm @@ d :
        c \in {EmptyDict} \cup {[content |-> b] : b \in ContentBlocks},
        sm \in {EmptyDict} \cup {[summary |-> x] : x \in Summaries},
        d \in {EmptyDict} \cup {[description |-> x] : x \in Descriptions}}

\* conf.DEFAULT_ENTRY_WORD_LIMIT
DEFAULT_ENTRY_WORD_LIMIT == 100

\* feedutil's find_post_content; truncate_html_words raises
\* UnicodeDecodeError on a text it cannot decode.
find_post_content(entry, decodes) ==
    LET content ==
            IF "content" \in DOMAIN entry /\ entry["content"] # <<>>
            THEN entry["content"][1].value
            ELSE IF Get(entry, "description", "") # ""
            THEN entry["description"]
            ELSE Get(entry, "summary", "")
    IN  IF decodes
        THEN truncate_html_words(content, DEFAULT_ENTRY_WORD_LIMIT)
        ELSE ""

Found(op, entry, decodes, result, raised) ==
    [op |-> op, entry |-> entry, decodes |-> decodes, result |-> result,
     raised |-> raised]

InitContent ==
    /\ feeds = [u \in {} |-> None]
    /\ posts = <<>>
    /\ now = 0
    /\ call = IdleCall

\* _find_post_summary(feed_obj, entry): nothing catches the exception of
\* truncate_html_words.
FindPostSummary ==
    /\ call = IdleCall
    /\ \E entry \in ContentEntries, decodes \in BOOLEAN :
        call' = IF decodes
                THEN Found("_find_post_summary", entry, decodes,
                           _find_post_summary(entry), "")
                ELSE Found("_find_post_summary", entry, decodes, "",
                           "UnicodeDecodeError")
    /\ UNCHANGED <<feeds, posts, now>>

\* find_post_content(feed_obj, entry)
FindPostContent ==
    /\ call = IdleCall
    /\ \E entry \in ContentEntries, decodes \in BOOLEAN :
        call' = Found("find_post_content", entry, decodes,
                      find_post_content(entry, decodes), "")
    /\ UNCHANGED <<feeds, posts, now>>

\* The caller takes the text (or the exception).
TakeFound ==
    /\ call # IdleCall
    /\ call' = IdleCall
    /\ UNCHANGED <<feeds, posts, now>>

NextContent == FindPostSummary \/ FindPostContent \/ TakeFound

SpecContent == InitContent /\ [][NextContent]_vars

\* ============================================================= claims
\* The posts of a feed with a guid.
PostsWith(ps, url, guid) ==
    {pk \in 1..Len(ps) : ps[pk].feed = url /\ ps[pk].guid = guid}

\* The call that has just ended was made for a feed that had its row.
OnKnownFeed ==
    /\ call'.op \in {"update_feed", "import_feed"}
    /\ call'.url \in DOMAIN feeds

\* The call that has just ended was import_feed for a URL without a row.
OnNewFeed == call'.op = "import_feed" /\ call'.url \notin DOMAIN feeds

\* The feed was refreshed less than the minimum interval ago.
RecentlyRefreshed(feed_obj) ==
    /\ feed_obj.date_last_refresh # None
    /\ now < feed_obj.date_last_refresh + 1

\* C1: a feed never has two posts with the same non-empty guid; a call that
\* imports an entry with guid g leaves exactly one post with g, which is the
\* post that had g before the call if there was one (nothing is created for
\* g then), and a new post otherwise.
C1_OnePostPerGuid ==
    /\ [](\A pk1, pk2 \in 1..Len(posts) :
            /\ posts[pk1].guid # ""
            /\ posts[pk1].guid = posts[pk2].guid
            /\ posts[pk1].feed = posts[pk2].feed
            => pk1 = pk2)
    /\ [][\A g \in DOMAIN call'.imported :
            /\ Cardinality(PostsWith(posts', call'.url, g)) = 1
            /\ PostsWith(posts, call'.url, g) # {}
                => PostsWith(posts', call'.url, g)
                        = PostsWith(posts, call'.url, g)]_vars

\* An entry with guid g1 was imported, and the post of g1 holds another
\* content than that entry: g1 has been imported before.
C1_Witness ==
    /\ "g1" \in DOMAIN call.imported
    /\ \E pk \in PostsWith(posts, call.url, "g1") :
            posts[pk].content # call.imported["g1"]

\* C2 (as claimed): when a call imports an entry with the guid of a post
\* that is stored, the post holds the content of that entry afterwards.
C2_LatestContentStored ==
    [][\A g \in DOMAIN call'.imported :
        \A pk \in PostsWith(posts, call'.url, g) :
            posts'[pk].content = call'.imported[g]]_vars

\* C3: update_feed without force on a feed refreshed less than the minimum
\* interval ago does not fetch and leaves the Feed row and the posts as
\* they are.
C3_ThrottledRefreshChangesNothing ==
    [][(/\ call'.op = "update_feed"
        /\ ~call'.force
        /\ call'.url \in DOMAIN feeds
        /\ RecentlyRefreshed(feeds[call'.url]))
       => (/\ call'.fetch = "none"
           /\ call'.raised = ""
           /\ feeds' = feeds
           /\ posts' = posts)]_vars

\* update_feed without force has returned without fetching, on a feed that
\* was refreshed less than the minimum interval ago and has posts.
C3_Witness ==
    /\ call.op = "update_feed"
    /\ ~call.force
    /\ call.fetch = "none"
    /\ RecentlyRefreshed(feeds[call.url])
    /\ posts # <<>>

\* C4 (as claimed): a call with force=true on a feed refreshed less than the
\* minimum interval ago, if it does not raise, fetches.
C4_ForceBypassesThrottle ==
    [][(/\ OnKnownFeed
        /\ call'.force
        /\ call'.raised = ""
        /\ RecentlyRefreshed(feeds[call'.url]))
       => call'.fetch # "none"]_vars

\* C5: import_feed for a URL without a Feed row whose fetch answers 404
\* raises FeedNotFoundError, and afterwards there is no Feed row for the URL
\* and no post of it.
C5_NotFoundOnFirstImport ==
    [][(/\ OnNewFeed
        /\ call'.fetch = "parsed"
        /\ call'.status = 404)
       => (/\ call'.raised = "FeedNotFoundError"
           /\ call'.url \notin DOMAIN feeds'
           /\ \A pk \in 1..Len(posts') : posts'[pk].feed # call'.url)]_vars

\* import_feed has raised FeedNotFoundError on a 404 and no row is stored.
C5_Witness ==
    /\ call.op = "import_feed"
    /\ call.fetch = "parsed"
    /\ call.status = 404
    /\ call.raised = "FeedNotFoundError"
    /\ call.url \notin DOMAIN feeds

\* C6: a refresh of a feed that has its row whose fetch answers 404 sets
\* last_error to not-found and nothing else in the row, leaves the posts,
\* imports nothing and raises nothing.
C6_NotFoundOnRefresh ==
    [][(/\ OnKnownFeed
        /\ call'.fetch = "parsed"
        /\ call'.status = 404)
       => (/\ feeds' = [feeds EXCEPT ![call'.url].last_error = "not_found"]
           /\ posts' = posts
           /\ call'.imported = EmptyDict
           /\ call'.raised = "")]_vars

\* A refresh got 404 for a feed that was refreshed before and has posts.
C6_Witness ==
    /\ call.fetch = "parsed"
    /\ call.status = 404
    /\ call.url \in DOMAIN feeds
    /\ feeds[call.url].last_error = "not_found"
    /\ feeds[call.url].date_last_refresh # None
    /\ feeds[call.url].http_etag # ""
    /\ posts # <<>>

\* C7: a refresh whose fetch times out sets last_error to timeout, leaves
\* date_last_refresh and the posts, and raises nothing.
C7_TimeoutOnRefresh ==
    [][(/\ OnKnownFeed
        /\ call'.fetch = "timeout")
       => (/\ feeds'[call'.url].last_error = "timeout"
           /\ feeds'[call'.url].date_last_refresh
                = feeds[call'.url].date_last_refresh
           /\ DOMAIN feeds' = DOMAIN feeds
           /\ posts' = posts
           /\ call'.raised = "")]_vars

\* A refresh timed out for a feed that was refreshed before and has posts.
C7_Witness ==
    /\ call.fetch = "timeout"
    /\ call.url \in DOMAIN feeds
    /\ feeds[call.url].last_error = "timeout"
    /\ feeds[call.url].date_last_refresh # None
    /\ posts # <<>>

\* C8: a refresh whose fetch answers 304 leaves the Feed row and the posts
\* as they are.
C8_NotModifiedChangesNothing ==
    [][(/\ OnKnownFeed
        /\ call'.fetch = "parsed"
        /\ call'.status = 304)
       => (/\ feeds' = feeds
           /\ posts' = posts
           /\ call'.raised = "")]_vars

\* A refresh got 304 for a feed that holds an error and has posts.
C8_Witness ==
    /\ call.fetch = "parsed"
    /\ call.status = 304
    /\ call.url \in DOMAIN feeds
    /\ feeds[call.url].last_error # ""
    /\ posts # <<>>

\* C9: a fetch that answers a status other than 200, 301, 302, 307, 404 and
\* 304 makes a first import raise FeedCriticalError with that status and
\* store no Feed row, and makes a refresh set last_error to generic and
\* leave the rest of the row and the posts.
C9_OtherStatusIsGenericError ==
    [][(/\ call'.fetch = "parsed"
        /\ call'.status \notin {200, 301, 302, 307, 404, 304, None})
       => IF call'.url \in DOMAIN feeds
          THEN /\ feeds' = [feeds EXCEPT ![call'.url].last_error = "error"]
               /\ posts' = posts
               /\ call'.raised = ""
          ELSE /\ call'.raised = "FeedCriticalError"
               /\ call'.excstatus = call'.status
               /\ feeds' = feeds
               /\ posts' = posts]_vars

\* import_feed has raised FeedCriticalError with the status 410 of the fetch.
C9_Witness ==
    /\ call.op = "import_feed"
    /\ call.fetch = "parsed"
    /\ call.status = 410
    /\ call.raised = "FeedCriticalError"
    /\ call.excstatus = 410
    /\ call.url \notin DOMAIN feeds

\* The call fetched, got an accepted status and ended without an exception.
RefreshedNow(c) ==
    /\ c.fetch = "parsed"
    /\ c.status \in {200, 301, 302, 307}
    /\ c.raised = ""

\* C10 (as claimed): after a pass that fetched with an accepted status and
\* imported, the row holds the pass time, no error, and the etag and the
\* modified time of the fetch.
C10_RowHoldsFetchedCache ==
    RefreshedNow(call)
    => /\ feeds[call.url].date_last_refresh = now
       /\ feeds[call.url].last_error = ""
       /\ feeds[call.url].http_etag = call.etag
       /\ feeds[call.url].http_last_modified = call.modified

\* C10 (amended): the row holds the pass time, no error, the etag of the
\* fetch (empty if it has none), and the modified time of the fetch if it
\* has one; if it has none the row keeps the modified time it had.
C10_RowHoldsFetchedCacheIfAny ==
    [][RefreshedNow(call')
       => (/\ feeds'[call'.url].date_last_refresh = now
           /\ feeds'[call'.url].last_error = ""
           /\ feeds'[call'.url].http_etag = call'.etag
           /\ feeds'[call'.url].http_last_modified =
                IF call'.modified # None THEN call'.modified
                ELSE IF call'.url \in DOMAIN feeds
                THEN feeds[call'.url].http_last_modified
                ELSE None)]_vars

\* A pass succeeded with a fetch that has an etag and no modified time, on a
\* row that holds a modified time from an earlier pass.
C10_Witness ==
    /\ RefreshedNow(call)
    /\ call.etag = "e2"
    /\ call.modified = None
    /\ feeds[call.url].http_last_modified # None
    /\ feeds[call.url].date_last_refresh = now


\* C11 (as claimed): a first import whose fetch answers 301 or 302 with a
\* URL other than the one requested registers no Feed under the requested
\* URL, and, if it does not raise, registers one under the URL answered.
C11_RedirectRegistersTarget ==
    [][(/\ OnNewFeed
        /\ call'.fetch = "parsed"
        /\ call'.status \in {301, 302}
        /\ call'.href # call'.url)
       => (/\ call'.url \notin DOMAIN feeds'
           /\ call'.raised = "" => call'.href \in DOMAIN feeds')]_vars

\* The posts without a guid of a feed, a title and a date of publication.
AnonymousPosts(ps, url, title, date_published) ==
    {pk \in 1..Len(ps) :
        /\ ps[pk].guid = ""
        /\ ps[pk].feed = url
        /\ ps[pk].title = title
        /\ ps[pk].date_published = date_published}

\* Two entries without a guid that have their title and date of publication
\* in common, and neither author nor link nor content.
Lookalikes(a, b) ==
    /\ a.title = b.title
    /\ a.date_published = b.date_published
    /\ a.author # b.author
    /\ a.link # b.link
    /\ a.content # b.content

\* C12 (as claimed): after a pass that imported two such entries the feed has
\* two posts without a guid of their title and date.
C12_LookalikesStoredApart ==
    \A a, b \in call.anonymous :
        Lookalikes(a, b)
        => Cardinality(AnonymousPosts(posts, call.url, a.title,
                                      a.date_published)) >= 2

\* C12 (amended): after a pass that imported two such entries the feed has at
\* most one post without a guid of their title and date: the second entry
\* resolves to the post that the lookup on title, feed and date matches.
C12_LookalikesStoredOnce ==
    \A a, b \in call.anonymous :
        Lookalikes(a, b)
        => Cardinality(AnonymousPosts(posts, call.url, a.title,
                                      a.date_published)) <= 1

\* A pass on a feed without posts has imported two such entries and has left
\* one post.
C12_Witness ==
    /\ \E a, b \in call.anonymous : Lookalikes(a, b)
    /\ call.raised = ""
    /\ Len(posts) = 1
    /\ posts[1].guid = ""

\* The date the spec's DateResolver picks for an entry that has one.
ResolvedDate(entry) ==
    IF "date_parsed" \in DOMAIN entry THEN entry["date_parsed"]
    ELSE IF "updated_parsed" \in DOMAIN entry THEN entry["updated_parsed"]
    ELSE entry["published_parsed"]

Dated(entry) == DOMAIN entry \cap DATE_KEYS # {}

\* x put into a list that is in descending order of date, behind the entries
\* of its date.
RECURSIVE PutBehind(_, _)
PutBehind(x, sorted) ==
    IF sorted = <<>> THEN <<x>>
    ELSE IF ResolvedDate(x) > ResolvedDate(Head(sorted)) THEN <<x>> \o sorted
    ELSE <<Head(sorted)>> \o PutBehind(x, Tail(sorted))

\* The entries in descending order of date, entries of one date in the order
\* of the input.
RECURSIVE StableDescending(_)
StableDescending(entries) ==
    IF entries = <<>> THEN <<>>
    ELSE PutBehind(entries[Len(entries)],
                   StableDescending(SubSeq(entries, 1, Len(entries) - 1)))

OrderedCall == call.op \in {"entries_by_date", "feedutil.entries_by_date"}

\* C13 (as claimed): for a batch whose entries all have a date, either
\* entries_by_date returns the entries in descending order of date, entries
\* of one date in the order of the input (cut to the limit).
C13_StableDescendingOrder ==
    (OrderedCall /\ \A i \in 1..Len(call.entries) : Dated(call.entries[i]))
    => /\ call.raised = ""
       /\ call.result = Take(StableDescending(call.entries), call.limit)

\* C14 (as claimed): the entries without dates of a batch are ordered by
\* dates that decrease strictly with the position in the input, and come out
\* in the order of the input.
C14_UndatedStrictlyDecreasing ==
    (OrderedCall /\ \A i \in 1..Len(call.entries) : ~Dated(call.entries[i]))
    => /\ \A i, j \in 1..Len(call.entries) :
            i < j => call.dates[i] > call.dates[j]
       /\ call.raised = ""
       /\ call.result = Take(call.entries, call.limit)

\* The field of the call declares a max length (it has the attribute, and
\* the attribute is not None).
DeclaresMaxLength(field) ==
    "max_length" \in DOMAIN field /\ field["max_length"] # None

\* C15 (as claimed): a string comes back cut to the first m characters if it
\* is longer than the max length m > 0, and as it is if it is not longer or
\* if m is 0 or absent; a value that is no string comes back as it is.
C15_ZeroIsUnlimited ==
    call.op = "truncate_by_field"
    => IF call.is_string /\ DeclaresMaxLength(call.field)
                         /\ call.field["max_length"] > 0
       THEN /\ Len(call.result) <= call.field["max_length"]
            /\ call.result =
                IF Len(call.value) <= call.field["max_length"]
                THEN call.value
                ELSE SubSeq(call.value, 1, call.field["max_length"])
       ELSE call.result = call.value

\* C15 (amended): a string comes back cut to the first m characters if it is
\* longer than the max length m >= 0 (to the empty string for m = 0), and as
\* it is if it is not longer or if m is absent; a value that is no string
\* comes back as it is.
C15_ZeroIsEmpty ==
    call.op = "truncate_by_field"
    => IF call.is_string /\ DeclaresMaxLength(call.field)
       THEN /\ Len(call.result) <= call.field["max_length"]
            /\ call.result =
                IF Len(call.value) <= call.field["max_length"]
                THEN call.value
                ELSE SubSeq(call.value, 1, call.field["max_length"])
       ELSE call.result = call.value

\* A string was cut to nothing by a max length of 0.
C15_Witness ==
    /\ call.op = "truncate_by_field"
    /\ call.is_string
    /\ DeclaresMaxLength(call.field)
    /\ call.field["max_length"] = 0
    /\ call.value = "Hello"
    /\ call.result = ""

\* C16 (as claimed): a refresh whose fetch answers an accepted status ends
\* without an exception and with the row refreshed (date_last_refresh the
\* time of the pass, last_error empty), whatever happens to single entries.
C16_EntryFailureStaysInside ==
    [][(/\ call'.op = "update_feed"
        /\ call'.fetch = "parsed"
        /\ call'.status \in {200, 301, 302, 307})
       => (/\ call'.raised = ""
           /\ feeds'[call'.url].date_last_refresh = now
           /\ feeds'[call'.url].last_error = "")]_vars

\* C17 (as claimed): import_feed for a URL that has its Feed row adds no row
\* and ends as update_feed on that row ends for some answer of the fetch:
\* with the same row, the same posts, and no exception update_feed would not
\* raise.
C17_ImportOfKnownFeedIsRefresh ==
    [][(call'.op = "import_feed" /\ call'.url \in DOMAIN feeds)
       => \E fetch \in {NoFetch} \cup Fetches(call'.url) :
            \E r \in {update_feed(feeds[call'.url], posts, NoneFeed,
                                  call'.force, fetch, now,
                                  DEFAULT_POST_LIMIT)} :
                /\ feeds' = [feeds EXCEPT ![call'.url] = r.feed_obj]
                /\ posts' = r.posts
                /\ call'.raised = r.raised]_vars

\* The four fields of a row that a pass commits; those of a row that is not
\* in the table are the ones get_or_create gives it.
Committed(fs, url) ==
    IF url \in DOMAIN fs
    THEN [date_last_refresh |-> fs[url].date_last_refresh,
          last_error |-> fs[url].last_error,
          http_etag |-> fs[url].http_etag,
          http_last_modified |-> fs[url].http_last_modified]
    ELSE [date_last_refresh |-> None, last_error |-> "",
          http_etag |-> "", http_last_modified |-> None]

\* C18: a step leaves the four fields of a row as they were, or as they were
\* but for last_error, which holds an error (the commit of an error
\* outcome), or all as the success path sets them (after a fetch with an
\* accepted status or, for a feed read from a file, none); a call that raises
\* leaves them as they were.
C18_OneCommit ==
    [][\A url \in DOMAIN feeds' :
        \/ Committed(feeds', url) = Committed(feeds, url)
        \/ /\ call'.raised = ""
           /\ call'.url = url
           /\ Committed(feeds', url).last_error
                \in {"timeout", "not_found", "error"}
           /\ Committed(feeds', url) =
                [Committed(feeds, url) EXCEPT
                    !.last_error = Committed(feeds', url).last_error]
        \/ /\ call'.raised = ""
           /\ call'.fetch = "parsed"
           /\ call'.status \in {200, 301, 302, 307, None}
           /\ call'.url = url
           /\ Committed(feeds', url) =
                [date_last_refresh |-> now,
                 last_error |-> "",
                 http_etag |-> call'.etag,
                 http_last_modified |->
                    IF call'.modified # None THEN call'.modified
                    ELSE Committed(feeds, url).http_last_modified]]_vars

\* A refresh that fetched with status 200 raised while it imported, on a row
\* that holds an error and the time of an earlier refresh.
C18_Witness ==
    /\ call.op = "update_feed"
    /\ call.fetch = "parsed"
    /\ call.status = 200
    /\ call.raised # ""
    /\ feeds[call.url].last_error # ""
    /\ feeds[call.url].date_last_refresh # None
    /\ feeds[call.url].date_last_refresh < now

\* Whether a post agrees with the fields of an entry on author, link or
\* content.
Agrees(post, fields) ==
    \/ post.author = fields.author
    \/ post.link = fields.link
    \/ post.content = fields.content

\* C19 (as claimed): on every table of posts the import of an entry without
\* a guid raises nothing, and adds a post if no post matches its title, feed
\* and date, or if several match and none of them agrees with it on author,
\* link or content; otherwise it adds none.
C19_ResolverScansCandidates ==
    \A url \in DOMAIN feeds, entry \in {EntryNoGuid, EntryNoGuid2} :
        LET fields == POST_FIELDS[entry][url][now]
            found == {pk \in 1..Len(posts) :
                        /\ posts[pk].title = fields.title
                        /\ posts[pk].feed = url
                        /\ posts[pk].date_published = fields.date_published}
            creates ==
                \/ found = {}
                \/ /\ Cardinality(found) > 1
                   /\ \A pk \in found : ~Agrees(posts[pk], fields)
        IN  \E r \in {import_entry(posts, entry, url, now)} :
                /\ r.raised = ""
                /\ Len(r.posts) = IF creates THEN Len(posts) + 1
                                  ELSE Len(posts)

\* Two posts without a guid of one feed, title and date of publication.
AnonymousTwins(ps) ==
    \E pk1, pk2 \in 1..Len(ps) :
        /\ pk1 # pk2
        /\ ps[pk1].guid = "" /\ ps[pk2].guid = ""
        /\ ps[pk1].feed = ps[pk2].feed
        /\ ps[pk1].title = ps[pk2].title
        /\ ps[pk1].date_published = ps[pk2].date_published

\* C20: starting without posts, the step that first leaves two posts without
\* a guid of one feed, title and date is the store of a pass that overlapped
\* with another; passes that do not overlap never leave such posts.  (That
\* overlapping passes do leave them is the witness.)
C20_TwinsOnlyFromOverlap ==
    [][(AnonymousTwins(posts') /\ ~AnonymousTwins(posts))
       => \E p \in Passes :
            /\ call[p].pc = "looked"
            /\ call'[p].pc = "idle"
            /\ call[p].overlapped]_vars

\* Two passes that both looked up before either stored have left two posts of
\* one entry without a guid.
C20_Witness ==
    /\ Len(posts) = 2
    /\ posts[1] = posts[2]
    /\ posts[1].guid = ""
    /\ AnonymousTwins(posts)

\* C21 (as claimed): a refresh of a feed whose row holds an error fetches,
\* and if its fetch answers an accepted status it clears last_error and sets
\* date_last_refresh to the time of the pass.
C21_ErrorDoesNotThrottleRetry ==
    [][(/\ call'.op = "update_feed"
        /\ feeds[call'.url].last_error # "")
       => (/\ call'.fetch # "none"
           /\ (call'.fetch = "parsed"
                    /\ call'.status \in {200, 301, 302, 307})
              => (/\ feeds'[call'.url].last_error = ""
                  /\ feeds'[call'.url].date_last_refresh = now))]_vars

\* C22 (as claimed): a first import whose fetch times out raises
\* FeedCriticalError (or FeedNotFoundError, which is one) and stores no Feed
\* row for the URL.
C22_TimeoutOnFirstImportIsCritical ==
    [][(OnNewFeed /\ call'.fetch = "timeout")
       => (/\ call'.raised \in {"FeedCriticalError", "FeedNotFoundError"}
           /\ call'.url \notin DOMAIN feeds')]_vars

HasBlock(entry) == "content" \in DOMAIN entry /\ entry["content"] # <<>>

\* A text as the function of the call returns it: _find_post_summary cuts
\* after 25 words, find_post_content after 100.
Shown(op, text) ==
    IF op = "_find_post_summary" /\ text = LongText
    THEN "w w w w w w w w w w w w w w w w w w w w w w w w w ..."
    ELSE text

FoundCall == call.op \in {"_find_post_summary", "find_post_content"}

\* C23 (as claimed): the content is the value of the first content block if
\* the entry has one, else the summary if it has one, else the description
\* if it has one, else empty; a text that cannot be decoded gives the empty
\* string.
C23_BlockThenSummaryThenDescription ==
    FoundCall
    => /\ call.raised = ""
       /\ call.result =
            IF ~call.decodes THEN ""
            ELSE IF HasBlock(call.entry)
            THEN Shown(call.op, call.entry["content"][1].value)
            ELSE IF "summary" \in DOMAIN call.entry
            THEN Shown(call.op, call.entry["summary"])
            ELSE IF "description" \in DOMAIN call.entry
            THEN Shown(call.op, call.entry["description"])
            ELSE ""

\* C23 (amended): _find_post_summary, the handler of the field, returns the
\* summary if the entry has one (an empty one too), else the value of the
\* first content block, else the empty string, never the description, and
\* raises on a text that cannot be decoded; find_post_content returns the
\* value of the first content block, else the description if it is not
\* empty, else the summary, else the empty string, and the empty string for a
\* text that cannot be decoded.
C23_SummaryBeforeBlock ==
    FoundCall
    => IF call.op = "_find_post_summary"
       THEN IF ~call.decodes THEN call.raised = "UnicodeDecodeError"
            ELSE /\ call.raised = ""
                 /\ call.result =
                        IF "summary" \in DOMAIN call.entry
                        THEN Shown(call.op, call.entry["summary"])
                        ELSE IF HasBlock(call.entry)
                        THEN Shown(call.op, call.entry["content"][1].value)
                        ELSE ""
       ELSE /\ call.raised = ""
            /\ call.result =
                IF ~call.decodes THEN ""
                ELSE IF HasBlock(call.entry)
                THEN call.entry["content"][1].value
                ELSE IF "description" \in DOMAIN call.entry
                        /\ call.entry["description"] # ""
                THEN call.entry["description"]
                ELSE IF "summary" \in DOMAIN call.entry
                THEN call.entry["summary"]
                ELSE ""

\* _find_post_summary has returned the summary of an entry that has a content
\* block as well.
C23_Witness ==
    /\ call.op = "_find_post_summary"
    /\ call.decodes
    /\ HasBlock(call.entry)
    /\ "summary" \in DOMAIN call.entry
    /\ call.entry["summary"] = "sm"
    /\ call.entry["content"][1].value = "cb"
    /\ call.result = "sm"

====
